---- MODULE Spec2Model ----
(***************************************************************************)
(* Model of windows/flutter_openseeface_plugin_c_api.cpp: the C entry      *)
(* point FlutterOpenseefacePluginCApiRegisterWithRegistrar, which the      *)
(* host calls with an opaque registrar handle.  The one statement of the   *)
(* function is                                                             *)
(*                                                                         *)
(*   FlutterOpenseefacePlugin::RegisterWithRegistrar(                      *)
(*       PluginRegistrarManager::GetInstance()                             *)
(*           ->GetRegistrar<PluginRegistrarWindows>(registrar));           *)
(*                                                                         *)
(* Each host thread that calls the entry point walks through the steps of  *)
(* that statement in C++ evaluation order.  The registrar manager and the  *)
(* plugin class are not part of the translation unit; their effect on the  *)
(* host's registrar table and plugin registry is modelled from the         *)
(* specification.                                                          *)
(***************************************************************************)
EXTENDS Integers, Sequences, FiniteSets, TLC

\* Bounds of the model.
NumThreads == 2
NumHandles == 2
MaxCalls == 2

Threads == 1..NumThreads
\* Handle 0 is a handle the host does not own (a null or stale reference).
NullHandle == 0
ValidHandles == 1..NumHandles
Handles == {NullHandle} \cup ValidHandles
NoHandle == -1

\* A typed registrar as the shim sees it: the handle it wraps, and whether
\* the wrapper is the one the manager's table owns (an untracked wrapper was
\* dropped by the table and dangles).
Registrars == [handle : Handles, tracked : BOOLEAN]
NoRegistrar == [handle |-> NoHandle, tracked |-> FALSE]

\* The call frame of one invocation: the parameter `registrar` (handle), the
\* manager pointer GetInstance returned, the key and lookup result inside
\* GetRegistrar, the typed registrar it returned, and the argument the
\* plugin's RegisterWithRegistrar received.
EmptyFrame == [handle |-> NoHandle, manager |-> FALSE, key |-> NoHandle,
               found |-> FALSE, registrar |-> NoRegistrar, arg |-> NoRegistrar]

VARIABLES
    pc,             \* position of each host thread in the entry point
    frame,          \* the call frame of each thread: parameter and temporaries
    log,            \* per thread: the events of its latest invocation
    retained,       \* handles or registrars held in storage the shim owns
    managerCreated, \* the registrar-manager singleton exists
    registrars,     \* keys of the manager's registrar table
    plugins,        \* per handle: plugin instances in that registrar's registry
    started,        \* invocations of the entry point so far
    regCalls,       \* calls of the plugin's RegisterWithRegistrar so far
    resolveFaults   \* invocations whose registrar resolution failed

vars == <<pc, frame, log, retained, managerCreated, registrars, plugins,
          started, regCalls, resolveFaults>>

hostVars == <<managerCreated, registrars, plugins>>
counters == <<started, regCalls, resolveFaults>>

Event(op, h, r) == [op |-> op, h |-> h, r |-> r]

Logged(t, op, h, r) == log' = [log EXCEPT ![t] = Append(@, Event(op, h, r))]

Goto(t, label) == pc' = [pc EXCEPT ![t] = label]

Init ==
    /\ pc = [t \in Threads |-> "idle"]
    /\ frame = [t \in Threads |-> EmptyFrame]
    /\ log = [t \in Threads |-> <<>>]
    /\ retained = {}
    \* Other plugins of the application may have gone through the manager
    \* before this one: the singleton and table entries may already exist.
    /\ registrars \in SUBSET ValidHandles
    /\ managerCreated \in {b \in BOOLEAN : registrars # {} => b}
    /\ plugins = [h \in Handles |-> 0]
    /\ started = 0
    /\ regCalls = 0
    /\ resolveFaults = 0

(***************************************************************************)
(* The entry point, lines 7-12.                                            *)
(***************************************************************************)

\* Variant: the entry point notes its handle in a file-scope variable.
EnterRetaining(t, h) ==
    /\ pc[t] = "idle"
    /\ started < MaxCalls
    /\ Goto(t, "entered")
    /\ frame' = [frame EXCEPT ![t] = [EmptyFrame EXCEPT !.handle = h]]
    /\ log' = [log EXCEPT ![t] = <<Event("Enter", h, NoRegistrar)>>]
    /\ started' = started + 1
    /\ retained' = retained \cup {h}
    /\ UNCHANGED <<hostVars, regCalls, resolveFaults>>

\* The host calls the entry point on thread t with handle h (line 7-8).
Enter(t, h) ==
    /\ pc[t] = "idle"
    /\ started < MaxCalls
    /\ Goto(t, "entered")
    /\ frame' = [frame EXCEPT ![t] = [EmptyFrame EXCEPT !.handle = h]]
    /\ log' = [log EXCEPT ![t] = <<Event("Enter", h, NoRegistrar)>>]
    /\ started' = started + 1
    /\ UNCHANGED <<retained, hostVars, regCalls, resolveFaults>>

\* Variant: the shim takes a lock of its own before touching the manager and
\* holds it until it returns.
CallGetInstanceLocked(t) ==
    /\ pc[t] = "entered"
    /\ \A u \in Threads \ {t} :
          pc[u] \notin {"haveManager", "inGetRegistrar", "resolved",
                        "registering", "registered"}
    /\ Goto(t, "haveManager")
    /\ managerCreated' = TRUE
    /\ frame' = [frame EXCEPT ![t].manager = TRUE]
    /\ Logged(t, "GetInstance", NoHandle, NoRegistrar)
    /\ UNCHANGED <<retained, registrars, plugins, counters>>

\* PluginRegistrarManager::GetInstance() (line 10): the first call creates
\* the singleton, every call returns it.
CallGetInstance(t) ==
    /\ pc[t] = "entered"
    /\ Goto(t, "haveManager")
    /\ managerCreated' = TRUE
    /\ frame' = [frame EXCEPT ![t].manager = TRUE]
    /\ Logged(t, "GetInstance", NoHandle, NoRegistrar)
    /\ UNCHANGED <<retained, registrars, plugins, counters>>

\* Variant: the shim resolves a fixed handle instead of its parameter.
HandleArgFixed(t) == IF frame[t].handle = NoHandle THEN NoHandle ELSE NumHandles

\* The handle the shim passes to GetRegistrar (line 11): its own parameter.
HandleArg(t) == frame[t].handle

\* ->GetRegistrar<PluginRegistrarWindows>(registrar) (line 11): the call is
\* made on the manager obtained before, and the manager looks the handle up.
CallGetRegistrar(t) ==
    /\ pc[t] = "haveManager"
    /\ frame[t].manager
    /\ Goto(t, "inGetRegistrar")
    /\ frame' = [frame EXCEPT ![t].key = HandleArg(t),
                              ![t].found = (HandleArg(t) \in registrars)]
    /\ Logged(t, "GetRegistrar", HandleArg(t), NoRegistrar)
    /\ UNCHANGED <<retained, hostVars, counters>>

\* Variant: the shim catches the failure and runs the statement again.
UnwindRetry(t) ==
    /\ Goto(t, "entered")
    /\ frame' = [frame EXCEPT ![t] = [EmptyFrame EXCEPT !.handle = frame[t].handle]]

\* A failure inside a callee is not caught (there is no try block in lines
\* 7-12): it leaves the entry point at once and the frame is gone.
Unwind(t) ==
    /\ Goto(t, "failed")
    /\ frame' = [frame EXCEPT ![t] = EmptyFrame]

\* GetRegistrar returns the typed registrar of the looked-up key.  A key that
\* was found yields the table's wrapper.  A key that was not found gets a new
\* wrapper, which the table takes unless another thread inserted one for the
\* same key in between: then the new wrapper is dropped and the returned
\* pointer dangles.
GetRegistrarReturn(t) ==
    /\ pc[t] = "inGetRegistrar"
    /\ LET k == frame[t].key
           r == [handle |-> k, tracked |-> (frame[t].found \/ k \notin registrars)]
       IN  /\ registrars' = registrars \cup {k}
           /\ frame' = [frame EXCEPT ![t].registrar = r]
           /\ Logged(t, "Resolved", k, r)
    /\ Goto(t, "resolved")
    /\ UNCHANGED <<retained, managerCreated, plugins, counters>>

\* Wrapping a handle the host does not own dereferences it: the resolution
\* may fail instead of returning.
GetRegistrarFault(t) ==
    /\ pc[t] = "inGetRegistrar"
    /\ ~frame[t].found
    /\ frame[t].key = NullHandle
    /\ Unwind(t)
    /\ Logged(t, "Fault", frame[t].key, NoRegistrar)
    /\ resolveFaults' = resolveFaults + 1
    /\ UNCHANGED <<retained, hostVars, started, regCalls>>

\* Variant: the shim forwards a wrapper of its own making around the handle
\* instead of the pointer the manager returned.
RegistrarArgOwnWrapper(t) == [handle |-> frame[t].registrar.handle, tracked |-> FALSE]

\* The registrar the shim forwards to the plugin (lines 9-11): the value
\* GetRegistrar returned in this invocation.
RegistrarArg(t) == frame[t].registrar

\* Variant: the shim skips the registration when the registrar already holds
\* the plugin.
CallRegisterGuarded(t) ==
    /\ pc[t] = "resolved"
    /\ IF plugins[RegistrarArg(t).handle] >= 1
       THEN /\ Goto(t, "registered")
            /\ UNCHANGED <<frame, log, regCalls>>
       ELSE /\ Goto(t, "registering")
            /\ frame' = [frame EXCEPT ![t].arg = RegistrarArg(t)]
            /\ Logged(t, "RegisterBegin", RegistrarArg(t).handle, RegistrarArg(t))
            /\ regCalls' = regCalls + 1
    /\ UNCHANGED <<retained, hostVars, started, resolveFaults>>

\* Variant: the shim hands the registration to a background task and goes on
\* without waiting for it.
CallRegisterDeferred(t) ==
    /\ pc[t] = "resolved"
    /\ Goto(t, "registered")
    /\ frame' = [frame EXCEPT ![t].arg = RegistrarArg(t)]
    /\ UNCHANGED <<log, retained, hostVars, counters>>

\* FlutterOpenseefacePlugin::RegisterWithRegistrar(...) (line 9): called once
\* the argument is evaluated, unconditionally.
CallRegister(t) ==
    /\ pc[t] = "resolved"
    /\ Goto(t, "registering")
    /\ frame' = [frame EXCEPT ![t].arg = RegistrarArg(t)]
    /\ Logged(t, "RegisterBegin", RegistrarArg(t).handle, RegistrarArg(t))
    /\ regCalls' = regCalls + 1
    /\ UNCHANGED <<retained, hostVars, started, resolveFaults>>

\* The plugin's registration routine adds one plugin instance to the
\* registrar it received and returns.  Through a dangling registrar the
\* instance reaches no registry.
PluginRegisterOk(t) ==
    /\ pc[t] = "registering"
    /\ LET r == frame[t].arg
       IN  plugins' = [plugins EXCEPT ![r.handle] = IF r.tracked THEN @ + 1 ELSE @]
    /\ Goto(t, "registered")
    /\ Logged(t, "RegisterEnd", frame[t].arg.handle, frame[t].arg)
    /\ UNCHANGED <<frame, retained, managerCreated, registrars, counters>>

\* The registration may fail on a registrar of a handle the host does not
\* own, on a dangling registrar, and on a registrar that already holds the
\* plugin (a registration conflict).
PluginRegisterFault(t) ==
    /\ pc[t] = "registering"
    /\ LET r == frame[t].arg
       IN  \/ r.handle = NullHandle
           \/ ~r.tracked
           \/ plugins[r.handle] >= 1
    /\ Unwind(t)
    /\ Logged(t, "Fault", frame[t].arg.handle, frame[t].arg)
    /\ UNCHANGED <<retained, hostVars, counters>>

\* Variant: the shim caches the resolved registrar's handle in a static before
\* it returns.
ReturnCaching(t) ==
    /\ pc[t] = "registered"
    /\ Goto(t, "idle")
    /\ frame' = [frame EXCEPT ![t] = EmptyFrame]
    /\ Logged(t, "Return", NoHandle, NoRegistrar)
    /\ retained' = retained \cup {frame[t].registrar.handle}
    /\ UNCHANGED <<hostVars, counters>>

\* The closing brace (line 12): the function returns nothing, its parameter
\* and temporaries end with it, and nothing was stored.
Return(t) ==
    /\ pc[t] = "registered"
    /\ Goto(t, "idle")
    /\ frame' = [frame EXCEPT ![t] = EmptyFrame]
    /\ Logged(t, "Return", NoHandle, NoRegistrar)
    /\ retained' = retained
    /\ UNCHANGED <<hostVars, counters>>

Next ==
    \E t \in Threads :
        \/ \E h \in Handles : Enter(t, h)
        \/ CallGetInstance(t)
        \/ CallGetRegistrar(t)
        \/ GetRegistrarReturn(t)
        \/ GetRegistrarFault(t)
        \/ CallRegister(t)
        \/ PluginRegisterOk(t)
        \/ PluginRegisterFault(t)
        \/ Return(t)

Spec == Init /\ [][Next]_vars

PCs == {"idle", "entered", "haveManager", "inGetRegistrar", "resolved",
        "registering", "registered", "failed"}

TypeOK ==
    /\ pc \in [Threads -> PCs]
    /\ \A t \in Threads : frame[t].handle \in Handles \cup {NoHandle}
    /\ registrars \subseteq Handles
    /\ \A h \in Handles : plugins[h] \in 0..MaxCalls
    /\ started \in 0..MaxCalls
    /\ regCalls \in 0..MaxCalls

(***************************************************************************)
(* Reading the per-thread event log.                                       *)
(***************************************************************************)

Count(t, op) == Cardinality({i \in DOMAIN log[t] : log[t][i].op = op})
Has(t, op) == \E i \in DOMAIN log[t] : log[t][i].op = op
LastOp(t) == log[t][Len(log[t])].op

\* The handle the latest invocation on thread t was entered with.
Invoked(t) == log[t][1].h

\* Thread t has gone through a whole invocation and is back in the host.
Returned(t) == pc[t] = "idle" /\ log[t] # <<>>

\* No invocation is in flight.
Quiescent == \A t \in Threads : pc[t] \in {"idle", "failed"}

\* Threads between entry and the call of the plugin's registration routine.
BeforeRegister ==
    {t \in Threads : pc[t] \in {"entered", "haveManager", "inGetRegistrar", "resolved"}}

RECURSIVE SumPlugins(_)
SumPlugins(S) ==
    IF S = {} THEN 0
    ELSE LET h == CHOOSE x \in S : TRUE IN plugins[h] + SumPlugins(S \ {h})

\* Plugin instances present in the host's registry, over all registrars.
TotalPlugins == SumPlugins(Handles)

\* The steps of one invocation in program order.
Canon == <<"Enter", "GetInstance", "GetRegistrar", "Resolved",
           "RegisterBegin", "RegisterEnd", "Return">>

(***************************************************************************)
(* Claims.                                                                 *)
(***************************************************************************)

\* C1: after a single invocation of the entry point with a valid handle, the
\* plugin is in the host's registry exactly once: one instance in the
\* registrar of that handle, none anywhere else, and the invocation did not
\* fail.
C1_RegisteredExactlyOnce ==
    \A t \in Threads :
        (started = 1 /\ log[t] # <<>> /\ Invoked(t) \in ValidHandles)
            => /\ pc[t] # "failed"
               /\ Returned(t) => (plugins[Invoked(t)] = 1 /\ TotalPlugins = 1)

C1_Witness ==
    \E t \in Threads :
        /\ started = 1
        /\ Returned(t)
        /\ Invoked(t) \in ValidHandles
        /\ plugins[Invoked(t)] = 1

\* C2: a step of an invocation on thread t changes nothing but the host's
\* registrar state and that invocation's own frame: the storage the shim owns
\* and every other thread's invocation are left as they were.
C2_OnlyRegistrarState ==
    [][\A t \in Threads :
          pc'[t] # pc[t] =>
              /\ retained' = retained
              /\ \A u \in Threads \ {t} :
                    /\ pc'[u] = pc[u]
                    /\ frame'[u] = frame[u]
                    /\ log'[u] = log[u]]_vars

C2_Witness ==
    \E t, u \in Threads :
        /\ t # u
        /\ Returned(t)
        /\ plugins[Invoked(t)] >= 1
        /\ pc[u] = "resolved"
        /\ frame[u].registrar.handle \in registrars

\* C3: the handle is borrowed for the call only: the shim's own storage never
\* holds a handle or a registrar, and once an invocation is over (returned or
\* failed) its frame, parameter and temporaries included, is gone.
C3_NothingRetained ==
    /\ retained = {}
    /\ \A t \in Threads : pc[t] \in {"idle", "failed"} => frame[t] = EmptyFrame

C3_Witness ==
    \E t \in Threads :
        /\ Returned(t)
        /\ Invoked(t) \in registrars
        /\ plugins[Invoked(t)] >= 1

\* C4: a failure of registrar resolution or of the plugin's registration is
\* the last thing that happens in its invocation: the shim does not catch it,
\* does not return normally after it, and makes no second attempt at either
\* call.
C4_FailureLeftToHost ==
    \A t \in Threads :
        /\ pc[t] = "failed" <=> Has(t, "Fault")
        /\ Has(t, "Fault") =>
              /\ LastOp(t) = "Fault"
              /\ Count(t, "Fault") = 1
              /\ Count(t, "GetRegistrar") <= 1
              /\ Count(t, "RegisterBegin") <= 1
              /\ ~Has(t, "Return")

C4_Witness ==
    \E t, u \in Threads :
        /\ pc[t] = "failed" /\ ~Has(t, "RegisterBegin")
        /\ pc[u] = "failed" /\ Has(u, "RegisterBegin")

\* C5: when the entry point has returned on thread t, the plugin's
\* registration routine was called and has completed on thread t within that
\* invocation, and the return is the last event: nothing of the invocation
\* runs after it.
C5_Synchronous ==
    \A t \in Threads :
        Returned(t) =>
            \E i, j \in DOMAIN log[t] :
                /\ i < j
                /\ j < Len(log[t])
                /\ log[t][i].op = "RegisterBegin"
                /\ log[t][j].op = "RegisterEnd"
                /\ LastOp(t) = "Return"
                /\ Count(t, "Return") = 1

C5_Witness ==
    \E t \in Threads :
        /\ Returned(t)
        /\ LastOp(t) = "Return"
        /\ \E u \in Threads : u # t /\ pc[u] = "registering"

\* C6: the shim does not serialise invocations: whatever the other threads
\* are doing, a thread inside the entry point can take its next step.
C6_NoSerialisation ==
    \A t \in Threads :
        /\ pc[t] = "entered" => ENABLED CallGetInstance(t)
        /\ pc[t] = "haveManager" => ENABLED CallGetRegistrar(t)
        /\ pc[t] = "resolved" => ENABLED CallRegister(t)
        /\ pc[t] = "registered" => ENABLED Return(t)

C6_Witness ==
    \E t, u \in Threads :
        /\ t # u
        /\ pc[t] = "inGetRegistrar" /\ pc[u] = "inGetRegistrar"
        /\ frame[t].key = frame[u].key
        /\ ~frame[t].found /\ ~frame[u].found

\* C7: the events of an invocation come in program order (singleton, then
\* resolution, then registration, then return; a failure ends it), the
\* resolution is asked for the handle the invocation was entered with, and the
\* registration receives the registrar that resolution returned.
C7_OrderAndForwarding ==
    \A t \in Threads :
        /\ Len(log[t]) <= Len(Canon)
        /\ \A i \in DOMAIN log[t] :
              \/ log[t][i].op = Canon[i]
              \/ i = Len(log[t]) /\ log[t][i].op = "Fault"
        /\ \A i \in DOMAIN log[t] :
              /\ log[t][i].op \in {"GetRegistrar", "Resolved"} => log[t][i].h = Invoked(t)
              /\ log[t][i].op = "RegisterBegin" =>
                    /\ log[t][i].r = log[t][i - 1].r
                    /\ log[t][i].r.handle = Invoked(t)

C7_Witness ==
    \E t, u \in Threads :
        /\ Returned(t) /\ Returned(u)
        /\ Invoked(t) # Invoked(u)
        /\ Invoked(t) \in ValidHandles /\ Invoked(u) \in ValidHandles
        /\ plugins[Invoked(t)] = 1 /\ plugins[Invoked(u)] = 1

\* C8 as stated: once n invocations are over, the plugin's registration
\* routine has been called exactly n times.
C8_OneCallPerInvocation == Quiescent => regCalls = started

\* C8 as amended: no invocation calls the registration routine twice, every
\* invocation that returned called it exactly once, and the calls made so far
\* are the invocations started less those still before the call and those
\* whose registrar resolution failed.
C8_OneCallUnlessResolutionFails ==
    /\ \A t \in Threads :
          /\ Count(t, "RegisterBegin") <= 1
          /\ Returned(t) => Count(t, "RegisterBegin") = 1
    /\ regCalls = started - Cardinality(BeforeRegister) - resolveFaults

C8_Witness ==
    /\ Quiescent
    /\ started = MaxCalls
    /\ \E h \in ValidHandles : plugins[h] >= 2

====
